---- MODULE Spec2Model ----
(***************************************************************************)
(* Kinesis stream handler of cloud-nuke (aws/resources/kinesis_stream.go). *)
(*                                                                         *)
(* Two operations are modelled:                                            *)
(*   getAll   lists the stream names page by page and keeps the names the  *)
(*            configuration includes;                                      *)
(*   nukeAll  deletes a batch of streams, one goroutine (deleteAsync) per  *)
(*            identifier, joined by a WaitGroup, each reporting over its   *)
(*            own channel of capacity 1.                                   *)
(*                                                                         *)
(* Spec        is one call of nukeAll, its goroutines interleaved freely.  *)
(* FairSpec    is Spec under a fair scheduler.                             *)
(* SpecLimit   is one call of nukeAll with a batch at the limit of 100.    *)
(* SpecGetAll  is one call of getAll, possibly after earlier deletions.    *)
(***************************************************************************)
EXTENDS Integers, Sequences, FiniteSets

(***************************************************************************)
(* Bounds of the model.                                                    *)
(***************************************************************************)
\* longest batch of identifiers whose goroutines are interleaved
MaxIds == 3
\* most stream names the provider lists
MaxNames == 4
\* largest page size of the listing
MaxPageLen == 2

(***************************************************************************)
(* Program constants.                                                      *)
(***************************************************************************)
\* nukeAll: if len(identifiers) > 100
StreamLimit == 100
\* nukeAll: make(chan error, 1)
ChanCap == 1

\* stream names
Names == {"a", "b"}

\* the nil error
Nil == "nil"
\* errors DeleteStream can return
OperationAborted == "OperationAbortedException"
DeleteErrors == {OperationAborted, "LimitExceededException"}
\* the error a page fetch can return
ListError == "ListStreamsError"

SeqsUpTo(S, n) == UNION {[1..k -> S] : k \in 0..n}

\* the identifier at position k of a batch: "a", "b", "a", ...
IdAt(k) == IF k % 2 = 1 THEN "a" ELSE "b"

\* the batches nukeAll is called with: one of every short length, and one above
\* the limit
Batches == {[k \in 1..n |-> IdAt(k)] : n \in (0..MaxIds) \cup {StreamLimit + 1}}

\* the names ns cut into pages of sz names; an empty listing is one empty page
RECURSIVE Paged(_, _)
Paged(ns, sz) ==
    IF Len(ns) <= sz THEN <<ns>>
    ELSE <<SubSeq(ns, 1, sz)>> \o Paged(SubSeq(ns, sz + 1, Len(ns)), sz)

\* the listings the provider can answer with: at least one page is always fetched
Listings == {Paged(ns, sz) : ns \in SeqsUpTo(Names, MaxNames), sz \in 1..MaxPageLen}

VARIABLES
    \* ---- nukeAll (the coordinator)
    npc,          \* where nukeAll is: idle, launch, wait, collect, returned
    identifiers,  \* its argument
    wg,           \* the WaitGroup's counter
    errChans,     \* errChans[i]: the content of task i's channel
    i,            \* index of the launch loop and of the collect loop
    allErrs,      \* the errors of the multierror collected so far
    nRet,         \* what nukeAll returned
    \* ---- deleteAsync (one goroutine per position)
    tpc,          \* tpc[k]: where task k is
    err,          \* err[k]: what DeleteStream returned to task k
    \* ---- the collaborators
    calls,        \* calls[k]: DeleteStream calls issued for position k
    streams,      \* the provider's existing streams
    reportSink,   \* the entries recorded by report.Record, in order
    completed,    \* the positions in the order their goroutines finished
    \* ---- getAll
    gpc,          \* where getAll is: idle, loop, returned
    listing,      \* the pages the provider answers with
    failAt,       \* the page whose fetch fails (0: none)
    include,      \* the names configObj.KinesisStream.ShouldInclude accepts
    fetched,      \* NextPage calls made so far
    allStreams,   \* the names accumulated so far
    gRet          \* what getAll returned

nukeVars == <<npc, identifiers, wg, errChans, i, allErrs, nRet, tpc, err>>
envVars == <<calls, streams, reportSink, completed>>
getVars == <<gpc, listing, failAt, include, fetched, allStreams, gRet>>
vars == <<nukeVars, envVars, getVars>>

NoReturn == [kind |-> "none", Errors |-> <<>>]

Init ==
    /\ npc = "idle"
    /\ identifiers = <<>>
    /\ wg = 0
    /\ errChans = <<>>
    /\ i = 0
    /\ allErrs = <<>>
    /\ nRet = NoReturn
    /\ tpc = <<>>
    /\ err = <<>>
    /\ calls = <<>>
    /\ streams = Names
    /\ reportSink = <<>>
    /\ completed = <<>>
    /\ gpc = "idle"
    /\ listing = <<>>
    /\ failAt = 0
    /\ include = {}
    /\ fetched = 0
    /\ allStreams = <<>>
    /\ gRet = [ids |-> <<>>, err |-> Nil]

N == Len(identifiers)

(***************************************************************************)
(* nukeAll                                                                 *)
(***************************************************************************)
\* the guard compared with a limit ten times too large
TooManyStreamsWrongLimit(n) == n > 10 * StreamLimit

\* the guard written with >= instead of >
TooManyStreamsAtLimit(n) == n >= StreamLimit

\* if len(identifiers) > 100
TooManyStreams(n) == n > StreamLimit

TooManyStreamsErr == [kind |-> "TooManyStreamsErr", Errors |-> <<>>]

\* nukeAll is entered: the guard, then wg.Add and the slice of channels
CallNukeAll(ids) ==
    /\ npc = "idle"
    /\ gpc = "idle"
    /\ identifiers' = ids
    /\ IF TooManyStreams(Len(ids))
       THEN /\ npc' = "returned"
            /\ nRet' = TooManyStreamsErr
            /\ UNCHANGED <<wg, errChans, i, tpc, err, calls>>
       ELSE /\ npc' = "launch"
            /\ wg' = Len(ids)
            /\ errChans' = [k \in 1..Len(ids) |-> <<>>]
            /\ tpc' = [k \in 1..Len(ids) |-> "none"]
            /\ err' = [k \in 1..Len(ids) |-> Nil]
            /\ calls' = [k \in 1..Len(ids) |-> 0]
            /\ i' = 1
            /\ UNCHANGED nRet
    /\ UNCHANGED <<allErrs, streams, reportSink, completed, getVars>>

\* the loop left after its first iteration
LaunchDoneEarly(k, n) == k > n \/ k > 1

\* for i, streamName := range identifiers
LaunchDone(k, n) == k > n

\* errChans[i] = make(chan error, 1); go ks.deleteAsync(wg, errChans[i], streamName)
Launch ==
    /\ npc = "launch"
    /\ ~LaunchDone(i, N)
    /\ tpc' = [tpc EXCEPT ![i] = "start"]
    /\ i' = i + 1
    /\ UNCHANGED <<npc, identifiers, wg, errChans, allErrs, nRet, err, envVars, getVars>>

\* the loop ends and the coordinator reaches wg.Wait()
LaunchEnd ==
    /\ npc = "launch"
    /\ LaunchDone(i, N)
    /\ npc' = "wait"
    /\ UNCHANGED <<identifiers, wg, errChans, i, allErrs, nRet, tpc, err, envVars, getVars>>

\* the wait given up while one task is still running
WaitReleasedAllButOne(w) == w <= 1

\* wg.Wait() left out
WaitOmitted(w) == TRUE

\* wg.Wait() returns once the counter is zero
WaitReleased(w) == w = 0

Wait ==
    /\ npc = "wait"
    /\ WaitReleased(wg)
    /\ npc' = "collect"
    /\ i' = 1
    /\ UNCHANGED <<identifiers, wg, errChans, allErrs, nRet, tpc, err, envVars, getVars>>

\* only the first error kept, the later ones dropped
CollectedOnlyFirst(errs, e) == IF e # Nil /\ errs = <<>> THEN <<e>> ELSE errs

\* allErrs overwritten by the last error instead of appended to
CollectedKeepLast(errs, e) == IF e # Nil THEN <<e>> ELSE errs

\* OperationAbortedException filtered out, as the comment above the loop says
CollectedDroppingAborted(errs, e) ==
    IF e # Nil /\ e # OperationAborted THEN Append(errs, e) ELSE errs

\* the new error put in front of the collected ones
CollectedPrepend(errs, e) == IF e # Nil THEN <<e>> \o errs ELSE errs

\* if err := <-errChan; err != nil { allErrs = multierror.Append(allErrs, err) }
Collected(errs, e) == IF e # Nil THEN Append(errs, e) ELSE errs

\* one iteration of: for _, errChan := range errChans; the receive blocks on an
\* empty channel
Collect ==
    /\ npc = "collect"
    /\ i <= N
    /\ errChans[i] # <<>>
    /\ allErrs' = Collected(allErrs, Head(errChans[i]))
    /\ errChans' = [errChans EXCEPT ![i] = Tail(@)]
    /\ i' = i + 1
    /\ UNCHANGED <<npc, identifiers, wg, nRet, tpc, err, envVars, getVars>>

\* allErrs returned as it is: a nil *multierror.Error in a non-nil error
ErrorOrNilTyped(errs) == [kind |-> "multierror", Errors |-> errs]

\* finalErr := allErrs.ErrorOrNil(); errors.WithStackTrace keeps the multierror
ErrorOrNil(errs) ==
    IF errs = <<>> THEN [kind |-> "nil", Errors |-> <<>>]
                   ELSE [kind |-> "multierror", Errors |-> errs]

Return ==
    /\ npc = "collect"
    /\ i > N
    /\ nRet' = ErrorOrNil(allErrs)
    /\ npc' = "returned"
    /\ UNCHANGED <<identifiers, wg, errChans, i, allErrs, tpc, err, envVars, getVars>>

(***************************************************************************)
(* deleteAsync, the goroutine of position k                                *)
(***************************************************************************)
\* the call skipped once a sibling has failed, as under a cancelling task group
TaskCallCancelled(k) ==
    /\ tpc[k] = "start"
    /\ IF \E j \in DOMAIN tpc : tpc[j] \in {"record", "send", "sent", "done"} /\ err[j] # Nil
       THEN /\ tpc' = [tpc EXCEPT ![k] = "record"]
            /\ err' = [err EXCEPT ![k] = "context canceled"]
            /\ UNCHANGED calls
       ELSE /\ tpc' = [tpc EXCEPT ![k] = "inflight"]
            /\ calls' = [calls EXCEPT ![k] = @ + 1]
            /\ UNCHANGED err
    /\ UNCHANGED <<npc, identifiers, wg, errChans, i, allErrs, nRet,
                   streams, reportSink, completed, getVars>>

\* ks.Client.DeleteStream(ks.Context, input) is issued
TaskCall(k) ==
    /\ tpc[k] = "start"
    /\ tpc' = [tpc EXCEPT ![k] = "inflight"]
    /\ calls' = [calls EXCEPT ![k] = @ + 1]
    /\ UNCHANGED <<npc, identifiers, wg, errChans, i, allErrs, nRet, err,
                   streams, reportSink, completed, getVars>>

\* DeleteStream returns: nil (the stream is gone) or one of its errors
TaskReturn(k, e) ==
    /\ tpc[k] = "inflight"
    /\ tpc' = [tpc EXCEPT ![k] = "record"]
    /\ err' = [err EXCEPT ![k] = e]
    /\ streams' = IF e = Nil THEN streams \ {identifiers[k]} ELSE streams
    /\ UNCHANGED <<npc, identifiers, wg, errChans, i, allErrs, nRet,
                   calls, reportSink, completed, getVars>>

\* the entry built without its Error field
EntryWithoutError(name, e) == [Identifier |-> name, ResourceType |-> "Kinesis Stream", Error |-> Nil]

\* e := report.Entry{Identifier, ResourceType: "Kinesis Stream", Error: err}
Entry(name, e) == [Identifier |-> name, ResourceType |-> "Kinesis Stream", Error |-> e]

\* report.Record(e)
TaskRecord(k) ==
    /\ tpc[k] = "record"
    /\ tpc' = [tpc EXCEPT ![k] = "send"]
    /\ reportSink' = Append(reportSink, Entry(identifiers[k], err[k]))
    /\ UNCHANGED <<npc, identifiers, wg, errChans, i, allErrs, nRet, err,
                   calls, streams, completed, getVars>>

\* the channel made without a buffer: make(chan error)
CanSendUnbuffered(ch) == Len(ch) < ChanCap - 1

\* a send blocks while the channel's buffer is full
CanSend(ch) == Len(ch) < ChanCap

\* errChan <- err
TaskSend(k) ==
    /\ tpc[k] = "send"
    /\ CanSend(errChans[k])
    /\ tpc' = [tpc EXCEPT ![k] = "sent"]
    /\ errChans' = [errChans EXCEPT ![k] = Append(@, err[k])]
    /\ UNCHANGED <<npc, identifiers, wg, i, allErrs, nRet, err, envVars, getVars>>

\* the logging, then the deferred wg.Done(): the goroutine is finished
TaskDone(k) ==
    /\ tpc[k] = "sent"
    /\ tpc' = [tpc EXCEPT ![k] = "done"]
    /\ wg' = wg - 1
    /\ completed' = Append(completed, k)
    /\ UNCHANGED <<npc, identifiers, errChans, i, allErrs, nRet, err,
                   calls, streams, reportSink, getVars>>

(***************************************************************************)
(* getAll                                                                  *)
(***************************************************************************)
\* getAll is entered: kinesis.NewListStreamsPaginator(ks.Client, ...)
CallGetAll(l, f, inc) ==
    /\ gpc = "idle"
    /\ npc = "idle"
    /\ gpc' = "loop"
    /\ listing' = l
    /\ failAt' = f
    /\ include' = inc
    /\ fetched' = 0
    /\ allStreams' = <<>>
    /\ UNCHANGED <<gRet, nukeVars, envVars>>

\* paginator.HasMorePages(): true before the first fetch and while the last
\* page fetched named a next one
HasMorePages(n, l) == n < Len(l)

\* configObj.KinesisStream.ShouldInclude(config.ResourceValue{Name: ...})
ShouldInclude(stream, inc) == stream \in inc

\* a name already accumulated is not appended again
RECURSIVE AppendIncludedDedup(_, _, _)
AppendIncludedDedup(all, page, inc) ==
    IF page = <<>> THEN all
    ELSE AppendIncludedDedup(
             IF ShouldInclude(Head(page), inc)
                /\ \A j \in 1..Len(all) : all[j] # Head(page)
             THEN Append(all, Head(page)) ELSE all,
             Tail(page), inc)

\* for _, stream := range page.StreamNames { if ShouldInclude { append } }
RECURSIVE AppendIncluded(_, _, _)
AppendIncluded(all, page, inc) ==
    IF page = <<>> THEN all
    ELSE AppendIncluded(IF ShouldInclude(Head(page), inc)
                           THEN Append(all, Head(page)) ELSE all,
                        Tail(page), inc)

\* every name kept is also written to the report sink
NextPageRecording ==
    /\ gpc = "loop"
    /\ HasMorePages(fetched, listing)
    /\ fetched + 1 # failAt
    /\ fetched' = fetched + 1
    /\ allStreams' = AppendIncluded(allStreams, listing[fetched + 1], include)
    /\ reportSink' = reportSink \o
          [j \in 1..Len(AppendIncluded(<<>>, listing[fetched + 1], include)) |->
              [Identifier |-> AppendIncluded(<<>>, listing[fetched + 1], include)[j],
               ResourceType |-> "Kinesis Stream", Error |-> Nil]]
    /\ UNCHANGED <<gpc, listing, failAt, include, gRet, nukeVars, calls, streams, completed>>

\* paginator.NextPage(c) succeeds and the page's names are filtered in
NextPage ==
    /\ gpc = "loop"
    /\ HasMorePages(fetched, listing)
    /\ fetched + 1 # failAt
    /\ fetched' = fetched + 1
    /\ allStreams' = AppendIncluded(allStreams, listing[fetched + 1], include)
    /\ UNCHANGED <<gpc, listing, failAt, include, gRet, nukeVars, envVars>>

\* the names accumulated so far returned with the error
FetchFailedPartial(all, e) == [ids |-> all, err |-> e]

\* if err != nil { return nil, errors.WithStackTrace(err) }
FetchFailed(all, e) == [ids |-> <<>>, err |-> e]

\* paginator.NextPage(c) fails
NextPageFail ==
    /\ gpc = "loop"
    /\ HasMorePages(fetched, listing)
    /\ fetched + 1 = failAt
    /\ fetched' = fetched + 1
    /\ gRet' = FetchFailed(allStreams, ListError)
    /\ gpc' = "returned"
    /\ UNCHANGED <<listing, failAt, include, allStreams, nukeVars, envVars>>

\* return allStreams, nil
GetAllReturn ==
    /\ gpc = "loop"
    /\ ~HasMorePages(fetched, listing)
    /\ gRet' = [ids |-> allStreams, err |-> Nil]
    /\ gpc' = "returned"
    /\ UNCHANGED <<listing, failAt, include, fetched, allStreams, nukeVars, envVars>>

Next ==
    \/ \E ids \in Batches : CallNukeAll(ids)
    \/ Launch
    \/ LaunchEnd
    \/ Wait
    \/ Collect
    \/ Return
    \/ \E k \in DOMAIN tpc : TaskCall(k)
    \/ \E k \in DOMAIN tpc : \E e \in {Nil} \cup DeleteErrors : TaskReturn(k, e)
    \/ \E k \in DOMAIN tpc : TaskRecord(k)
    \/ \E k \in DOMAIN tpc : TaskSend(k)
    \/ \E k \in DOMAIN tpc : TaskDone(k)

\* one call of nukeAll
Spec == Init /\ [][Next]_vars

\* one call of nukeAll under a fair scheduler: a goroutine that can take a step
\* takes one, a DeleteStream call that was issued returns
FairSpec == Spec /\ WF_vars(Next)

(***************************************************************************)
(* A batch at the limit.  StreamLimit goroutines cannot be interleaved in  *)
(* every order, so SpecLimit runs one schedule of each class: the launched *)
(* tasks are alike, and of the tasks at the same place the one of lowest   *)
(* position moves; calls return once the launch loop has ended, and one    *)
(* task at a time is between the return of its call and its wg.Done; the   *)
(* outcome of a call is fixed by its position.  The coordinator and every  *)
(* step of a task are those of Spec, which interleaves short batches       *)
(* without any of these restrictions.                                      *)
(***************************************************************************)
\* the batches at the limit and one above it
LimitBatches == {[k \in 1..n |-> IdAt(k)] : n \in {StreamLimit, StreamLimit + 1}}

\* task k is the task of lowest position at place pc
Turn(k, pc) == tpc[k] = pc /\ \A j \in 1..(k - 1) : tpc[j] # pc

\* the launch loop has ended and no task is between the return of its call
\* and its wg.Done
NoneFinishing ==
    /\ npc # "launch"
    /\ \A j \in DOMAIN tpc : tpc[j] \notin {"record", "send", "sent"}

\* what DeleteStream returns for position k
OutcomeAt(k) ==
    IF k % 3 = 0 THEN OperationAborted
    ELSE IF k % 7 = 0 THEN "LimitExceededException" ELSE Nil

NextLimit ==
    \/ \E ids \in LimitBatches : CallNukeAll(ids)
    \/ Launch
    \/ LaunchEnd
    \/ Wait
    \/ Collect
    \/ Return
    \/ \E k \in DOMAIN tpc : Turn(k, "start") /\ TaskCall(k)
    \/ \E k \in DOMAIN tpc : Turn(k, "inflight") /\ NoneFinishing /\ TaskReturn(k, OutcomeAt(k))
    \/ \E k \in DOMAIN tpc : TaskRecord(k)
    \/ \E k \in DOMAIN tpc : TaskSend(k)
    \/ \E k \in DOMAIN tpc : TaskDone(k)

\* one call of nukeAll with a batch at the limit
SpecLimit == Init /\ [][NextLimit]_vars

NextGetAll ==
    \/ \E l \in Listings : \E f \in 0..Len(l) : \E inc \in SUBSET Names :
          CallGetAll(l, f, inc)
    \/ NextPage
    \/ NextPageFail
    \/ GetAllReturn

\* what earlier calls of nukeAll can have left in the process-wide report sink
\* and at the provider: nothing; "a" deleted; "a" deleted and the delete of "b"
\* failed
PriorDeletions ==
    { [sink |-> <<>>, streams |-> Names],
      [sink |-> <<Entry("a", Nil)>>, streams |-> Names \ {"a"}],
      [sink |-> <<Entry("a", Nil), Entry("b", OperationAborted)>>, streams |-> Names \ {"a"}] }

\* getAll is called in a process that may have deleted before: the frames of
\* the earlier calls are gone, the sink and the provider keep what they did
InitGetAll ==
    /\ npc = "idle"
    /\ identifiers = <<>>
    /\ wg = 0
    /\ errChans = <<>>
    /\ i = 0
    /\ allErrs = <<>>
    /\ nRet = NoReturn
    /\ tpc = <<>>
    /\ err = <<>>
    /\ calls = <<>>
    /\ completed = <<>>
    /\ \E p \in PriorDeletions : reportSink = p.sink /\ streams = p.streams
    /\ gpc = "idle"
    /\ listing = <<>>
    /\ failAt = 0
    /\ include = {}
    /\ fetched = 0
    /\ allStreams = <<>>
    /\ gRet = [ids |-> <<>>, err |-> Nil]

\* one call of getAll
SpecGetAll == InitGetAll /\ [][NextGetAll]_vars

(***************************************************************************)
(* Notions the properties are stated with                                  *)
(***************************************************************************)
\* nukeAll has returned from a batch the guard let through
ReturnedFromBatch == npc = "returned" /\ N <= StreamLimit

\* the positions whose DeleteStream call has returned an error
Failed == {k \in DOMAIN tpc : tpc[k] \notin {"none", "start", "inflight"} /\ err[k] # Nil}

\* how often x occurs in the sequence s
Occurrences(s, x) == Cardinality({j \in 1..Len(s) : s[j] = x})

\* the errors of the failed positions, taken in the order of the positions in
\* the sequence order
RECURSIVE ErrsAlong(_)
ErrsAlong(order) ==
    IF order = <<>> THEN <<>>
    ELSE IF err[Head(order)] # Nil
         THEN <<err[Head(order)]>> \o ErrsAlong(Tail(order))
         ELSE ErrsAlong(Tail(order))

\* the positions 1..N in ascending order
Positions == [k \in 1..N |-> k]

\* all names of a listing, page after page
RECURSIVE Flatten(_)
Flatten(l) == IF l = <<>> THEN <<>> ELSE Head(l) \o Flatten(Tail(l))

(***************************************************************************)
(* Properties of nukeAll (checked under Spec)                              *)
(***************************************************************************)

\* C1: a call of nukeAll with more than 100 identifiers returns
\* TooManyStreamsErr, and in every state of that call no task has been
\* launched, no DeleteStream call has been issued, no report entry has been
\* recorded (and no stream is gone).
C1_TooManyRejected ==
    N > StreamLimit =>
        /\ npc = "returned"
        /\ nRet = TooManyStreamsErr
        /\ \A k \in DOMAIN tpc : tpc[k] = "none"
        /\ \A k \in DOMAIN calls : calls[k] = 0
        /\ reportSink = <<>>
        /\ streams = Names

C1_Witness == N = StreamLimit + 1 /\ npc = "returned"

C3_ReturnsAfterAllTasks ==
    ReturnedFromBatch =>
        /\ \A k \in 1..N :
              /\ tpc[k] = "done"
              /\ calls[k] = 1
              /\ \E j \in 1..Len(reportSink) :
                    /\ reportSink[j].Identifier = identifiers[k]
                    /\ reportSink[j].Error = err[k]
        /\ \A k \in 1..N : errChans[k] = <<>>
        /\ Len(completed) = N
        /\ wg = 0

C3_Witness ==
    /\ ReturnedFromBatch
    /\ N >= 2
    /\ Failed # {}
    /\ \A k \in 1..N : tpc[k] = "done"

\* C4: a call of nukeAll with zero identifiers issues no DeleteStream call,
\* records no report entry, and returns nil.
C4_EmptyBatch ==
    (npc # "idle" /\ N = 0) =>
        /\ reportSink = <<>>
        /\ \A k \in DOMAIN calls : calls[k] = 0
        /\ npc = "returned" => nRet.kind = "nil"

C4_Witness == npc = "returned" /\ N = 0 /\ nRet.kind = "nil"

C8_LaunchAllThenWait ==
    /\ (npc = "launch" /\ i <= N) => ENABLED Launch
    /\ (npc \in {"wait", "collect", "returned"} /\ N <= StreamLimit) =>
          \A k \in 1..N : tpc[k] # "none"

\* all N DeleteStream calls are in flight at the same time
C8_Witness ==
    /\ N >= 2
    /\ N <= StreamLimit
    /\ \A k \in 1..N : tpc[k] = "inflight"

\* C9 as stated: the sub-errors of the returned multierror are in the order
\* in which the failing tasks completed.
C9_CompletionOrder ==
    (ReturnedFromBatch /\ nRet.kind = "multierror") =>
        nRet.Errors = ErrsAlong(completed)

\* C9 as amended: the sub-errors of the returned multierror are in the order
\* of the failing identifiers' positions in the batch, whatever the order in
\* which the tasks completed.
C9_PositionOrder ==
    ReturnedFromBatch => nRet.Errors = ErrsAlong(Positions)

\* two tasks failed with different errors and completed in the other order
C9_Witness ==
    /\ ReturnedFromBatch
    /\ nRet.kind = "multierror"
    /\ ErrsAlong(completed) # ErrsAlong(Positions)

\* C10: nukeAll ignores OperationAbortedException when it collects the
\* outcomes: the returned error holds no OperationAbortedException, and a
\* batch whose only failures are of that kind returns nil.
C10_AbortedIgnored ==
    ReturnedFromBatch =>
        /\ Occurrences(nRet.Errors, OperationAborted) = 0
        /\ (\A k \in 1..N : err[k] \in {Nil, OperationAborted}) => nRet.kind = "nil"

(***************************************************************************)
(* Properties of getAll (checked under SpecGetAll)                         *)
(***************************************************************************)

\* C5: when no page fetch fails, getAll returns without error exactly the
\* listed names that ShouldInclude accepts, in the order of the listing (page
\* after page), keeping duplicates.
C5_FilterInOrder ==
    (gpc = "returned" /\ failAt = 0) =>
        /\ gRet.err = Nil
        /\ fetched = Len(listing)
        /\ gRet.ids = SelectSeq(Flatten(listing), LAMBDA s : s \in include)

\* two pages, a name kept twice, a name dropped
C5_Witness ==
    /\ gpc = "returned"
    /\ failAt = 0
    /\ Len(listing) >= 2
    /\ Len(gRet.ids) >= 2
    /\ gRet.ids[1] = gRet.ids[2]
    /\ Len(gRet.ids) < Len(Flatten(listing))

\* C6: when the fetch of a page fails, getAll returns no identifiers and that
\* error, also after names of earlier pages were accumulated, and no page is
\* fetched after the failing one.
C6_FetchFailure ==
    failAt # 0 =>
        /\ fetched <= failAt
        /\ fetched = failAt => /\ gpc = "returned"
                               /\ gRet.ids = <<>>
                               /\ gRet.err = ListError
        /\ gpc = "returned" => fetched = failAt

\* the second page fails after names of the first were accumulated
C6_Witness ==
    /\ gpc = "returned"
    /\ failAt = 2
    /\ fetched = 2
    /\ allStreams # <<>>
    /\ Len(listing) > failAt

(***************************************************************************)
(* Further properties of nukeAll (checked under Spec)                      *)
(***************************************************************************)

\* C11: for a batch of N <= 100 identifiers exactly one DeleteStream call is
\* issued per position: never more than one, none only while the task has
\* not reached the call, and one for every position at the return. A task
\* that is about to call, or whose call is in flight, can take its next step
\* whatever the outcomes of the other positions are.
C11_OneCallPerPosition ==
    N <= StreamLimit =>
        /\ \A k \in DOMAIN calls :
              /\ calls[k] = IF tpc[k] \in {"none", "start"} THEN 0 ELSE 1
              /\ tpc[k] = "start" => ENABLED TaskCall(k)
              /\ tpc[k] = "inflight" => \A e \in {Nil} \cup DeleteErrors : ENABLED TaskReturn(k, e)
        /\ npc = "returned" => \A k \in 1..N : calls[k] = 1

\* a position has failed and finished while the call of another is in flight
\* and the task of a third has not called yet
C11_Witness ==
    /\ N >= 3
    /\ N <= StreamLimit
    /\ \E j, k, m \in 1..N :
          /\ tpc[j] = "done" /\ err[j] # Nil
          /\ tpc[k] = "inflight"
          /\ tpc[m] = "start"

\* the positions whose task has recorded its report entry
Recorded == {k \in DOMAIN tpc : tpc[k] \in {"send", "sent", "done"}}

\* C12: in a task the DeleteStream call returns, then the report entry is
\* recorded, then the outcome is delivered: a channel holds a value only of a
\* task that has recorded its entry, and that value is the error DeleteStream
\* returned; the sink holds one entry per position that has recorded, with
\* the position's identifier, the tag "Kinesis Stream" and that same error,
\* and no other entry.
C12_EntryThenOutcome ==
    N <= StreamLimit =>
        /\ \A k \in DOMAIN errChans :
              errChans[k] # <<>> => /\ tpc[k] \in {"sent", "done"}
                                    /\ errChans[k] = <<err[k]>>
        /\ \A k \in DOMAIN tpc : tpc[k] \in {"sent", "done"} => k \in Recorded
        /\ Len(reportSink) = Cardinality(Recorded)
        /\ \A s \in Names : \A e \in {Nil} \cup DeleteErrors :
              Occurrences(reportSink,
                          [Identifier |-> s, ResourceType |-> "Kinesis Stream", Error |-> e])
                = Cardinality({k \in Recorded : identifiers[k] = s /\ err[k] = e})

\* a failed task's outcome waits in its channel while another task's call has
\* returned and its entry is not yet recorded
C12_Witness ==
    /\ N >= 2
    /\ N <= StreamLimit
    /\ \E j, k \in 1..N :
          /\ errChans[k] = <<err[k]>>
          /\ err[k] # Nil
          /\ tpc[j] = "record"

\* C13: nukeAll has no timeout of its own: while the DeleteStream call of some
\* position has not returned, the coordinator is still in the launch loop or
\* blocked in wg.Wait, which cannot be passed; nothing has been collected and
\* nothing returned, however many of the other tasks have finished. A call
\* that never returns therefore keeps nukeAll from ever returning.
C13_HangBlocksBatch ==
    (N <= StreamLimit /\ \E k \in DOMAIN tpc : tpc[k] = "inflight") =>
        /\ npc \in {"launch", "wait"}
        /\ ~ENABLED Wait
        /\ ~ENABLED Return
        /\ allErrs = <<>>
        /\ nRet = NoReturn

\* every task but one has finished, the call of that one is in flight, and
\* the coordinator is blocked in wg.Wait
C13_Witness ==
    /\ N >= 3
    /\ N <= StreamLimit
    /\ npc = "wait"
    /\ \E k \in 1..N :
          /\ tpc[k] = "inflight"
          /\ \A j \in 1..N \ {k} : tpc[j] = "done"
    /\ ~ENABLED (Launch \/ LaunchEnd \/ Wait \/ Collect \/ Return)

(***************************************************************************)
(* The batch-size guard at its boundary (checked under SpecLimit)          *)
(***************************************************************************)
\* the positions whose DeleteStream call is in flight
InFlight == {k \in DOMAIN tpc : tpc[k] = "inflight"}

\* C14: the guard rejects only more than 100 identifiers: a batch of exactly
\* 100 is not answered with TooManyStreamsErr, its 100 tasks are launched by
\* the time the coordinator waits, and at the return each position has had
\* its DeleteStream call and its report entry; a batch of 101 launches
\* nothing; never are more than 100 calls in flight or more than 100 tasks
\* launched.
C14_GuardBoundary ==
    /\ (N = StreamLimit /\ npc # "idle") =>
          /\ nRet # TooManyStreamsErr
          /\ DOMAIN tpc = 1..StreamLimit
          /\ npc \in {"wait", "collect", "returned"} => \A k \in 1..N : tpc[k] # "none"
          /\ npc = "returned" => /\ \A k \in 1..N : calls[k] = 1
                                 /\ Len(reportSink) = StreamLimit
                                 /\ nRet.kind \in {"nil", "multierror"}
    /\ N > StreamLimit => /\ nRet = TooManyStreamsErr
                          /\ DOMAIN tpc = {}
    /\ Cardinality(InFlight) <= StreamLimit
    /\ Cardinality({k \in DOMAIN tpc : tpc[k] # "none"}) <= StreamLimit

\* the calls of all 100 positions of a batch of 100 are in flight at once
C14_Witness ==
    /\ N = StreamLimit
    /\ Cardinality(InFlight) = StreamLimit

(***************************************************************************)
(* Termination of nukeAll (checked under FairSpec)                         *)
(***************************************************************************)
\* the tasks that have not called wg.Done
Running == {k \in DOMAIN tpc : tpc[k] # "done"}

\* the sends never block, the wait is released exactly when all tasks are
\* done, every receive finds one value, the channels are empty at the return,
\* and some step is possible until nukeAll has returned
C15_NoBlocking ==
    (npc # "idle" /\ N <= StreamLimit) =>
        /\ \A k \in 1..N : Len(errChans[k]) <= ChanCap
        /\ \A k \in 1..N : tpc[k] = "send" => errChans[k] = <<>> /\ ENABLED TaskSend(k)
        /\ wg = Cardinality(Running)
        /\ npc = "wait" => (ENABLED Wait <=> Running = {})
        /\ npc = "collect" =>
              /\ \A k \in 1..N : Len(errChans[k]) = IF k < i THEN 0 ELSE 1
              /\ i <= N => ENABLED Collect
        /\ npc = "returned" => \A k \in 1..N : errChans[k] = <<>>
        /\ npc # "returned" => ENABLED Next

\* C15: provided every DeleteStream call returns, every call of nukeAll
\* returns under fair scheduling and never deadlocks: no send blocks (each
\* channel has capacity 1 and gets one value), the wait is released exactly
\* when all N tasks are done, each of the N receives finds one value, and the
\* channels are empty at the return.
C15_Terminates ==
    /\ []C15_NoBlocking
    /\ (npc # "idle") ~> (npc = "returned")

\* the coordinator is collecting from a batch of three: one value received,
\* one value waiting in each of the other channels
C15_Witness ==
    /\ N >= 3
    /\ N <= StreamLimit
    /\ npc = "collect"
    /\ i = 2
    /\ \A k \in 2..N : Len(errChans[k]) = 1

(***************************************************************************)
(* The sink and the returned error (checked under Spec)                    *)
(***************************************************************************)
\* the sub-error position k contributed to the returned multierror: the
\* sub-errors are in the order of the failed positions
SubErrorOf(k) == nRet.Errors[Cardinality({j \in Failed : j <= k})]

C17_DiscoveryFrame ==
    [][(gpc' # gpc \/ fetched' # fetched) =>
          /\ reportSink' = reportSink
          /\ streams' = streams
          /\ calls' = calls
          /\ tpc' = tpc]_vars

\* getAll has returned names of two pages or more while the sink holds the
\* entries of an earlier deletion and a stream is gone
C17_Witness ==
    /\ gpc = "returned"
    /\ fetched >= 2
    /\ gRet.ids # <<>>
    /\ Len(reportSink) = 2
    /\ streams # Names
====
